---- MODULE Spec2Model ----
(***************************************************************************)
(* Energy-based gunshot detection of GunshotDetection/src:                 *)
(*   basicTimeStamping.detect_gunshots  (the detection pipeline)           *)
(*   main_gui.GunshotDetectionApp._detect_gunshot_task  (its caller)       *)
(*   processing.locate_gunshots  (detection plus classification of a clip  *)
(*                                per timestamp, run by worker threads)    *)
(* the onset-based variant of Final Project:                               *)
(*   TimeStampingWithSpectrogram.detect_gunshots_onset                     *)
(* and the main window of main_gui.GunshotDetectionApp: background tasks   *)
(* behind a processing popup, the gunshot markers, and audio playback      *)
(*                                                                         *)
(* Number representation                                                   *)
(*   samples            the integer a of a file with gain g is the float32 *)
(*                      sample a * 2^-g (gain 1: the sample 2 is 1.0)     *)
(*   frame energies     float32 sums of float32 squares, counted in the    *)
(*                      file's unit: 2^-2g, or the smallest subnormal      *)
(*                      2^-149 where 2^-2g lies below it                   *)
(*   frame_duration     microseconds (0.2 s = 200000)                      *)
(*   energy_threshold   tenths (0.5 = 5)                                   *)
(*   min_time_between   microseconds (0.29999 s = 299990)                  *)
(*   timestamps         milliseconds: round(x, 3) yields a multiple of     *)
(*                      0.001 s                                            *)
(*   normalized energy  the pair <<e, max>> for the quotient e / max;      *)
(*                      <<0, 0>> is the float NaN that 0.0 / 0.0 produces  *)
(***************************************************************************)
EXTENDS Integers, Sequences, FiniteSets, TLC

VARIABLES
    pc,                \* position of the running call
    y, sr,             \* the decoded signal and its sample rate (line 8)
    gain,              \* the binary exponent of the file's amplitude unit
    frame_duration, energy_threshold, min_time_between,   \* the parameters
    frame_length, hop_length,                              \* lines 9-10
    energy,            \* raw frame energies (lines 13-16)
    energy_norm,       \* `energy` after the in-place division of line 17
    spikes,            \* line 20, 0-based frame indices
    timestamps,        \* line 23
    filtered,          \* lines 26-30
    k,                 \* how many elements of `timestamps` the loop has consumed
    exc,               \* the exception detect_gunshots raised, or "none"
    result,            \* the dictionary _detect_gunshot_task returns
    prev,              \* history: what the previous call on the same inputs gave
    \* locate_gunshots, one invocation per worker
    l_pc,              \* position of each invocation
    file_path,         \* the recording each invocation analyses
    l_timestamps,      \* processing.py line 56
    l_i,               \* how many timestamps the loop of line 61 has handled
    clip,              \* the segment loaded in line 63
    firearm_info,      \* line 69
    gunshots,          \* line 60, 74-83
    l_result,          \* what each invocation returned
    tempfiles,         \* the working directory: temp file name -> content
    l_failed,          \* history: the statement whose exception ended the call
    \* detect_gunshots_onset
    o_pc,              \* position of the call
    o_sr,              \* sample rate of the file (line 33)
    min_separation,    \* the parameter, microseconds
    onset_frames,      \* line 37, ascending frame indices
    last_time,         \* line 43: <<TRUE, 0>> is -inf, <<FALSE, f>> the time of frame f
    o_filtered,        \* line 42
    o_k,               \* how many elements of `times` the loop has consumed
    \* GunshotDetectionApp (main_gui.py)
    popups,            \* every PopupWindow created so far: is it still shown
    popup,             \* self.popup: index into popups, 0 before the first one
    threads,           \* every ProcessingThread created so far
    processing_thread, \* self.processing_thread: index into threads, 0 at first
    signals,           \* finished/error signals queued for the main thread
    handled,           \* history: the tasks whose signal has been handled, in order
    aborted,           \* the process was ended by Qt
    current_file,      \* line 354 and 716
    audio_data,        \* len(self.audio_data), or NoAudio for None
    energy_threshold_text,   \* the text of the QLineEdit of line 426, tenths
    locate_btn,        \* is the Locate button enabled (lines 449, 821)
    gunshot_locations, \* line 361
    gunshot_markers,   \* self.timeline.gunshot_markers
    is_playing,        \* line 358
    current_stream,    \* line 362: TRUE when it holds an OutputStream
    playback_position, \* line 360
    scrub_slider       \* self.scrub_slider.value(), 0..1000

detectVars == <<pc, y, sr, gain, frame_duration, energy_threshold,
                min_time_between, frame_length, hop_length, energy, energy_norm,
                spikes, timestamps, filtered, k, exc, result, prev>>

locateVars == <<l_pc, file_path, l_timestamps, l_i, clip, firearm_info, gunshots,
                l_result, tempfiles, l_failed>>

onsetVars == <<o_pc, o_sr, min_separation, onset_frames, last_time, o_filtered,
               o_k>>

taskVars == <<popups, popup, threads, processing_thread, signals, handled, aborted>>

fileVars == <<current_file, audio_data, energy_threshold_text, locate_btn>>

markerVars == <<gunshot_locations, gunshot_markers>>

playbackVars == <<is_playing, current_stream, playback_position, scrub_slider>>

guiVars == <<taskVars, fileVars, markerVars, playbackVars>>

vars == <<detectVars, locateVars, onsetVars, guiVars>>

locals == <<frame_length, hop_length, energy, energy_norm, spikes, timestamps,
            filtered, k>>

inputs == <<y, sr, gain, frame_duration, energy_threshold, min_time_between>>

-----------------------------------------------------------------------------
(* Bounds and input sets *)

MaxLen == 5

Samples == {-1, 0, 2}

RECURSIVE SeqsUpTo(_)
SeqsUpTo(n) ==
    IF n = 0 THEN {<<>>}
    ELSE LET shorter == SeqsUpTo(n - 1)
         IN  shorter \cup {Append(s, a) : s \in {t \in shorter : Len(t) = n - 1}, a \in Samples}

\* A 1.5 s recording at 10 Hz with two bursts, at samples 10-11 and 13-14:
\* with frame_duration 0.2 the loudest frames start at 1.0 s and 1.3 s.
TwoBursts == <<0,0,0,0,0,0,0,0,0,0,1,1,0,1,1>>

Signals == SeqsUpTo(MaxLen) \cup {TwoBursts}

MaxQuietLen == 2

\* amplitude units 2^-1 and 2^-75: a float32 file stores both exactly, and
\* the square of 2^-75 lies below the smallest float32 subnormal
Gains == {1, 75}

\* A 2.2 s recording at 10 Hz: three unit impulses at samples 3, 11 and 19
\* (0.3 s, 1.1 s, 1.9 s) over a sparse background of amplitude 0.5.
ThreeImpulses == <<-1,0,0,2, 0,0,0,-1, 0,0,0,2, 0,0,0,-1, 0,0,0,2, 0,0>>

\* the decoded files: every short signal at gain 1, the very short ones
\* also as very quiet recordings, and the two longer recordings
Files ==
    {[samples |-> s, gain |-> 1] : s \in Signals \cup {ThreeImpulses}}
        \cup {[samples |-> s, gain |-> 75] : s \in SeqsUpTo(MaxQuietLen)}

SampleRates == {10, 3000}

FrameDurations == {-200000, 900, 100000, 200000, 400000}

Thresholds == {-5, 5, 6, 10}

Separations == {-100000, 0, 299990, 300000, 500000}

-----------------------------------------------------------------------------
(* Arithmetic of the pipeline *)

Min(a, b) == IF a <= b THEN a ELSE b

\* int(x): truncation toward zero
Trunc(a, b) == IF a >= 0 THEN a \div b ELSE -((-a) \div b)

FrameLengthRounded(fd, rate) == (fd * rate + 500000) \div 1000000

\* line 9: frame_length = int(frame_duration * sr)
FrameLength(fd, rate) == Trunc(fd * rate, 1000000)

\* line 10: hop_length = frame_length // 2   (floor division)
HopLength(fl) == fl \div 2

NumFramesWhole(n, hop) == IF hop > 0 THEN n \div hop ELSE 0

\* len(range(0, n, hop)) for hop # 0  (line 15)
NumFrames(n, hop) == IF hop > 0 THEN (n + hop - 1) \div hop ELSE 0

\* Round half to even of num / den, for num >= 0 and den > 0: the IEEE-754
\* rounding of a float32 product (line 14) and np.float64.__round__(3), which
\* is rint(x * 1000) / 1000 (line 23).  (At the model's sample rates no
\* timestamp quotient is a tie, so Python's float.__round__ gives the same
\* values.)
RoundHalfEven(num, den) ==
    LET q == num \div den
        r == num % den
    IN  IF 2 * r < den THEN q
        ELSE IF 2 * r > den THEN q + 1
        ELSE IF q % 2 = 0 THEN q ELSE q + 1

RECURSIVE Pow2(_)
Pow2(n) == IF n = 0 THEN 1 ELSE 2 * Pow2(n - 1)

\* line 14: np.abs(v) ** 2 of the float32 sample a * 2^-g, in the file's
\* energy unit.  For 2g <= 149 the square a*a * 2^-2g is a float32; below
\* that it is rounded to a multiple of the smallest subnormal 2^-149.
Sq32(a, g) ==
    IF 2 * g <= 149 THEN a * a ELSE RoundHalfEven(a * a, Pow2(2 * g - 149))

RECURSIVE SumSq(_, _, _, _)
\* np.sum(np.abs(y[lo-1 : hi]) ** 2), 1-based inclusive bounds
SumSq(sig, g, lo, hi) ==
    IF lo > hi THEN 0 ELSE Sq32(sig[lo], g) + SumSq(sig, g, lo + 1, hi)

\* line 14: the energy of the frame that starts at sample `start` (0-based);
\* the slice y[i:i+frame_length] is cut at the end of the signal
FrameEnergy(sig, g, start, fl) ==
    SumSq(sig, g, start + 1, Min(start + fl, Len(sig)))

\* lines 13-16
Energies(sig, g, fl, hop) ==
    [i \in 1..NumFrames(Len(sig), hop) |-> FrameEnergy(sig, g, (i - 1) * hop, fl)]

\* np.max of a non-empty array
MaxOf(e) == CHOOSE m \in {e[i] : i \in DOMAIN e} : \A i \in DOMAIN e : e[i] <= m

\* line 17: energy /= np.max(energy); 0/0 is NaN, kept as <<0, 0>>
Normalized(e) == [i \in DOMAIN e |-> <<e[i], MaxOf(e)>>]

IsNaN(s) == s[2] = 0

ScoreGe(s, thr) == ~IsNaN(s) /\ s[1] * 10 >= thr * s[2]

ScoreGtFlipped(s, thr) == ~IsNaN(s) /\ s[1] * 10 < thr * s[2]

\* line 20: one element of `energy > energy_threshold`; NaN > x is False
ScoreGt(s, thr) == ~IsNaN(s) /\ s[1] * 10 > thr * s[2]

SpikesOneBased(en, thr) ==
    SelectSeq([i \in 1..Len(en) |-> i], LAMBDA i : ScoreGt(en[i], thr))

\* line 20: np.where(energy > energy_threshold)[0], 0-based and ascending
Spikes(en, thr) ==
    SelectSeq([i \in 1..Len(en) |-> i - 1], LAMBDA i : ScoreGt(en[i + 1], thr))

TimestampFloor(i, hop, rate) == (i * hop * 1000) \div rate

TimestampNoHop(i, hop, rate) == RoundHalfEven(i * 1000, rate)

\* line 23: round((i * hop_length) / sr, 3), in milliseconds
Timestamp(i, hop, rate) == RoundHalfEven(i * hop * 1000, rate)

\* line 23
Timestamps(sp, hop, rate) == [j \in DOMAIN sp |-> Timestamp(sp[j], hop, rate)]

\* IEEE-754 binary64: the pairs <<t, last>> of millisecond values (multiples
\* of 100 up to 2100, and the rounded onset times) for which the float difference t/1000 - last/1000 is
\* GREATER than the float (t - last)/1000, e.g. 0.4 - 0.1 and 1.3 - 1.0 are
\* 0.30000000000000004.  For every other pair of the model's values, and
\* whenever (t - last) differs from the separation, the float comparison
\* agrees with the exact one.
F64TieGreater ==
    { <<400, 100>>, <<400, 300>>, <<800, 100>>, <<800, 200>>, <<800, 500>>,
      <<800, 600>>, <<800, 700>>, <<900, 300>>, <<900, 600>>, <<900, 700>>,
      <<1000, 700>>, <<1100, 200>>, <<1100, 400>>, <<1100, 500>>,
      <<1100, 600>>, <<1100, 700>>, <<1100, 800>>, <<1100, 900>>,
      <<1100, 1000>>, <<1300, 600>>, <<1300, 700>>, <<1300, 1000>>,
      <<1300, 1200>>, <<1500, 1200>>, <<1500, 1400>>, <<1600, 200>>,
      <<1600, 400>>, <<1600, 700>>, <<1600, 900>>, <<1600, 1000>>,
      <<1600, 1200>>, <<1600, 1300>>, <<1600, 1400>>, <<1600, 1500>>,
      <<1700, 1400>>, <<1800, 600>>, <<1800, 1200>>, <<1800, 1400>>,
      <<1800, 1500>>, <<1800, 1700>>, <<2000, 1400>>, <<2000, 1700>>,
      <<2000, 1900>>, <<2100, 200>>, <<2100, 400>>, <<2100, 700>>,
      <<2100, 900>>, <<2100, 1200>>, <<2100, 1400>>, <<2100, 1500>>,
      <<2100, 1700>>, <<2100, 1800>>, <<2100, 1900>>, <<2100, 2000>>,
      <<1080, 580>> }

\* line 29: (t - filtered[-1]) > min_time_between, evaluated in binary64
SubGt(t, last, sep) ==
    IF (t - last) * 1000 = sep THEN <<t, last>> \in F64TieGreater
    ELSE (t - last) * 1000 > sep

AcceptsFromZero(f, t, sep) ==
    SubGt(t, IF f = <<>> THEN 0 ELSE f[Len(f)], sep)

AcceptsPrevRaw(f, t, sep) == k = 0 \/ SubGt(t, timestamps[k], sep)

AcceptsInverted(f, t, sep) ==
    f = <<>> \/ ~SubGt(t, f[Len(f)], sep)

\* line 29: not filtered or (t - filtered[-1]) > min_time_between
Accepts(f, t, sep) == f = <<>> \/ SubGt(t, f[Len(f)], sep)

RECURSIVE FilterFrom(_, _, _, _)
\* lines 26-30 as one fold: the loop from element j of ts on, having kept f
FilterFrom(f, ts, j, sep) ==
    IF j > Len(ts) THEN f
    ELSE FilterFrom(IF Accepts(f, ts[j], sep) THEN Append(f, ts[j]) ELSE f,
                    ts, j + 1, sep)

\* detect_gunshots as a function of the decoded file and the parameters:
\* the exception it raises, or the list it returns
Detect(sig, g, rate, fd, thr, sep) ==
    LET fl  == FrameLength(fd, rate)
        hop == HopLength(fl)
        e   == Energies(sig, g, fl, hop)
    IN  IF hop = 0 \/ e = <<>>
        THEN [exc |-> "ValueError", out |-> <<>>]
        ELSE [exc |-> "none",
              out |-> FilterFrom(<<>>, Timestamps(Spikes(Normalized(e), thr), hop, rate),
                                 1, sep)]

\* TESTSCRIPTS/basicTimeStamping.py line 31: the separation written into the
\* loop, 0.2 s
TestScriptSeparation == 200000

\* TESTSCRIPTS/basicTimeStamping.py detect_gunshots (lines 18-33): line for
\* line the pipeline above, with no min_time_between parameter and the
\* comparison (t - filtered[-1]) > 0.2
TestScriptDetect(sig, g, rate, fd, thr) ==
    Detect(sig, g, rate, fd, thr, TestScriptSeparation)

StaleFiltered == filtered

\* line 26: filtered = []
NewFiltered == <<>>

DetectedUncapped(ts) ==
    [presence |-> Len(ts) > 0, confidence |-> Len(ts) * 10, timestamps |-> ts]

\* _detect_gunshot_task, lines 977-981
Detected(ts) ==
    [presence |-> Len(ts) > 0, confidence |-> Min(95, Len(ts) * 10), timestamps |-> ts]

\* _detect_gunshot_task, lines 984-988 and 991-995
NoDetections == [presence |-> FALSE, confidence |-> 0, timestamps |-> <<>>]

NoCall == [called |-> FALSE, exc |-> "none", result |-> NoDetections]

-----------------------------------------------------------------------------
(* processing.locate_gunshots and categorize_firearm *)

\* the invocations that run at the same time, each on a recording of its own
Workers == {1, 2}

\* the recordings, sampled at 10 Hz
Recordings ==
    [two_bursts |-> TwoBursts, three_impulses |-> ThreeImpulses, empty |-> <<>>]

\* processing.py line 56: basic_detect_gunshots(file_path), every parameter
\* at its default, except that the frame is the 0.2 s frame of the 10 Hz
\* recordings (the default 0.05 s frame holds no sample at 10 Hz)
BasicDetect(name) == Detect(Recordings[name], 1, 10, 200000, 6, 300000)

\* line 64: temp_file = f"temp_gunshot_{t}.wav"; the name is a function of
\* the timestamp alone, so the timestamp stands for the name
TempFile(t) == t

TempFiles ==
    UNION {{TempFile(BasicDetect(n).out[j]) : j \in DOMAIN BasicDetect(n).out} :
              n \in DOMAIN Recordings}

NoFile == [rec |-> "none", at |-> -1]

\* line 63: the 0.2 s segment of the recording around t
LoadSegment(name, t) == [rec |-> name, at |-> t]

\* categorize_firearm lines 196-201: what it returns when anything fails,
\* such as opening a file that is gone
ClassifyError == [firearm |-> "Error", caliber |-> "N/A", match_confidence |-> 0]

\* categorize_firearm on a readable file: the networks' answer is a function
\* of the file's content; here the weapon of the recording the content is
\* from (match_confidence in per cent)
ClassifyContent(c) ==
    IF c.rec = "two_bursts"
    THEN [firearm |-> "Glock", caliber |-> "9mm", match_confidence |-> 90]
    ELSE [firearm |-> "AK-47", caliber |-> "7.62mm", match_confidence |-> 80]

\* line 69: categorize_firearm(temp_file) given the directory's content
Classify(content) ==
    IF content = NoFile THEN ClassifyError ELSE ClassifyContent(content)

\* lines 74-83 (confidence in per cent; the fields that are the constant
\* 'Unknown' are left out)
Marker(t, info) ==
    [time |-> t, confidence |-> 95, type |-> info.firearm,
     caliber |-> info.caliber, match_confidence |-> info.match_confidence]

-----------------------------------------------------------------------------
(* TimeStampingWithSpectrogram.detect_gunshots_onset *)

\* line 36
OnsetHopLength == 512

OnsetRates == {22050, 44100}

\* 0.5 s is the default of line 32
OnsetSeparations == {500000, 650000}

\* the frames librosa.onset.onset_detect may report
OnsetFrameChoices == {1, 5, 29, 33, 50, 61, 93}

RECURSIVE SortedSeq(_)
\* the elements of a finite set of integers, ascending
SortedSeq(S) ==
    IF S = {} THEN <<>>
    ELSE LET m == CHOOSE x \in S : \A z \in S : x <= z
         IN  <<m>> \o SortedSeq(S \ {m})

\* line 39: librosa.frames_to_time gives frame * hop_length / sr seconds;
\* line 46: round(t, 3) of it, in milliseconds
RoundedOnset(f, rate) == RoundHalfEven(f * OnsetHopLength * 1000, rate)

\* line 45: t - last_time > min_separation on the unrounded times of frames
\* f and last, the separation being a whole number of milliseconds (no
\* difference of two frame times equals a separation of the model, and they
\* differ from it by far more than a float error)
OnsetGt(f, last, sep, rate) ==
    (f - last) * OnsetHopLength * 1000 > (sep \div 1000) * rate

-----------------------------------------------------------------------------
(* The state machine *)

-----------------------------------------------------------------------------
(* main_gui.GunshotDetectionApp *)

\* how many background tasks the window starts in one session
MaxTasks == 3

\* self.audio_data = None (line 357)
NoAudio == -1

\* the recordings File > Open offers; both hold samples
GuiFiles == {"two_bursts", "three_impulses"}

\* what the user types into the energy threshold field (tenths)
GuiThresholds == {6, 10}

\* where the user drops the slider
SliderStops == {0, 500, 1000}

\* where the user clicks the timeline, thousandths of the duration
PositionStops == {250, 750}

\* line 912: chunk_size = min(1024, remaining)
Blocksize == 1024

\* _load_file_task lines 803-812; the audio data is kept as its length
LoadFileTask(fname) == [filename |-> fname, audio_data |-> Len(Recordings[fname])]

\* _detect_gunshot_task lines 961-995 on a 10 Hz recording, the threshold
\* field as typed, the other two fields at 0.2 and 0.3
DetectGunshotTask(fname, thr) ==
    LET d == Detect(Recordings[fname], 1, 10, 200000, thr, 300000)
    IN  IF d.exc = "none" THEN Detected(d.out) ELSE NoDetections

\* _locate_gunshots_task line 1058, main_gui.locate_gunshots lines 1519-1525
\* and processing.locate_gunshots lines 50-89 when no statement raises
LocateGunshotsTask(fname) ==
    LET d == BasicDetect(fname)
    IN  IF d.exc # "none" THEN <<>>
        ELSE [j \in DOMAIN d.out |->
                Marker(d.out[j], ClassifyContent(LoadSegment(fname, d.out[j])))]

\* _handle_detection_result lines 1017-1030: predict_audio on the second of
\* audio around the timestamp; its answer stands for the recording's weapon
PredictedMarker(fname, t) ==
    LET info == ClassifyContent(LoadSegment(fname, t))
    IN  [time |-> t, label |-> info.firearm, confidence |-> info.match_confidence]

\* _handle_detection_result lines 998-1043: the new gunshot_locations
DetectionLocations(fname, res) ==
    IF res.presence
    THEN [j \in DOMAIN res.timestamps |-> PredictedMarker(fname, res.timestamps[j])]
    ELSE <<>>

\* _handle_locate_result lines 1060-1068: the new gunshot_locations
LocateLocations(res) == IF res # <<>> THEN res ELSE <<>>

\* the playback fields of the window as one record
Playback ==
    [is_playing |-> is_playing, current_stream |-> current_stream,
     playback_position |-> playback_position, scrub_slider |-> scrub_slider]

\* the <<position, length>> of a 10 Hz recording for which the binary64
\* value of ((position / 10) / (length / 10)) * 1000 lies just below the
\* integer that the exact quotient is
PermilleBelow == {<<3, 15>>, <<6, 15>>, <<12, 15>>}

\* lines 858-860 and 918-920: int((current_time / self.duration) * 1000)
Permille(pos, len) ==
    (pos * 1000) \div len - (IF <<pos, len>> \in PermilleBelow THEN 1 ELSE 0)

\* QSlider.setValue on the range 0..1000 (line 563): the value is clipped
SliderValue(pos, len) == Min(1000, Permille(pos, len))

\* stop_playback lines 841-860
stop_playback(p, audio) ==
    [is_playing |-> FALSE, current_stream |-> FALSE,
     playback_position |-> p.playback_position,
     scrub_slider |-> IF audio # NoAudio
                      THEN SliderValue(p.playback_position, audio)
                      ELSE p.scrub_slider]

\* line 876: int((self.scrub_slider.value() / 1000.0) * len(self.audio_data))
StartSample(value, audio) == (value * audio) \div 1000

\* toggle_playback lines 871-898; `device` tells whether the output stream
\* could be opened and started
toggle_playback(p, audio, device) ==
    IF p.is_playing THEN stop_playback(p, audio)
    ELSE IF audio = NoAudio THEN p
    ELSE LET q == [p EXCEPT !.playback_position = StartSample(p.scrub_slider, audio)]
         IN  IF device
             THEN [q EXCEPT !.current_stream = TRUE, !.is_playing = TRUE]
             ELSE stop_playback(q, audio)

\* update_playback lines 900-929; `written` tells whether the stream took
\* the chunk
update_playback(p, audio, written) ==
    IF ~p.is_playing \/ ~p.current_stream THEN p
    ELSE LET remaining == audio - p.playback_position
         IN  IF remaining <= 0 \/ ~written THEN stop_playback(p, audio)
             ELSE LET pos == p.playback_position + Min(Blocksize, remaining)
                  IN  [p EXCEPT !.playback_position = pos,
                                !.scrub_slider = IF Permille(pos, audio) <= 1000
                                                 THEN Permille(pos, audio)
                                                 ELSE @]

\* scrub_audio lines 942-948 and scrub_to_position lines 862-869, after the
\* slider has taken the value
scrub(p, audio, device) ==
    IF audio # NoAudio /\ p.is_playing
    THEN toggle_playback(stop_playback(p, audio), audio, device)
    ELSE p

InitDetect ==
    /\ pc = "idle"
    /\ y = <<>> /\ sr = 10 /\ gain = 1
    /\ frame_duration = 200000 /\ energy_threshold = 5 /\ min_time_between = 300000
    /\ frame_length = 0 /\ hop_length = 0
    /\ energy = <<>> /\ energy_norm = <<>> /\ spikes = <<>> /\ timestamps = <<>>
    /\ filtered = <<>> /\ k = 0
    /\ exc = "none"
    /\ result = NoDetections
    /\ prev = NoCall

InitLocate ==
    /\ l_pc = [w \in Workers |-> "idle"]
    /\ file_path = [w \in Workers |-> "empty"]
    /\ l_timestamps = [w \in Workers |-> <<>>]
    /\ l_i = [w \in Workers |-> 0]
    /\ clip = [w \in Workers |-> NoFile]
    /\ firearm_info = [w \in Workers |-> ClassifyError]
    /\ gunshots = [w \in Workers |-> <<>>]
    /\ l_result = [w \in Workers |-> <<>>]
    /\ tempfiles = [n \in TempFiles |-> NoFile]
    /\ l_failed = [w \in Workers |-> "none"]

InitOnset ==
    /\ o_pc = "idle"
    /\ o_sr = 22050
    /\ min_separation = 500000
    /\ onset_frames = <<>>
    /\ last_time = <<TRUE, 0>>
    /\ o_filtered = <<>>
    /\ o_k = 0

\* GunshotDetectionApp.__init__ lines 354-362, init_ui line 426
InitGui ==
    /\ popups = <<>>
    /\ popup = 0
    /\ threads = <<>>
    /\ processing_thread = 0
    /\ signals = <<>>
    /\ handled = <<>>
    /\ aborted = FALSE
    /\ current_file = "none"
    /\ audio_data = NoAudio
    /\ energy_threshold_text = 6
    /\ locate_btn = FALSE
    /\ gunshot_locations = <<>>
    /\ gunshot_markers = <<>>
    /\ is_playing = FALSE
    /\ current_stream = FALSE
    /\ playback_position = 0
    /\ scrub_slider = 0

Init == InitDetect /\ InitLocate /\ InitOnset /\ InitGui

\* _detect_gunshot_task lines 964-975 and detect_gunshots line 8: the
\* parameters are read, detect_gunshots is entered and the file is decoded
Call ==
    /\ pc = "idle"
    /\ UNCHANGED <<locateVars, onsetVars, guiVars>>
    /\ \E file \in Files : y' = file.samples /\ gain' = file.gain
    /\ sr' \in SampleRates
    /\ frame_duration' \in FrameDurations
    /\ energy_threshold' \in Thresholds
    /\ min_time_between' \in Separations
    /\ pc' = "frame"
    /\ UNCHANGED <<locals, exc, result, prev>>

\* lines 9-10
Frame ==
    /\ pc = "frame"
    /\ UNCHANGED <<locateVars, onsetVars, guiVars>>
    /\ frame_length' = FrameLength(frame_duration, sr)
    /\ hop_length' = HopLength(FrameLength(frame_duration, sr))
    /\ pc' = "energy"
    /\ UNCHANGED <<inputs, energy, energy_norm, spikes, timestamps, filtered, k,
                   exc, result, prev>>

\* lines 13-16; range(0, len(y), 0) raises ValueError
ComputeEnergy ==
    /\ pc = "energy"
    /\ UNCHANGED <<locateVars, onsetVars, guiVars>>
    /\ IF hop_length = 0
       THEN /\ exc' = "ValueError"
            /\ pc' = "raised"
            /\ UNCHANGED energy
       ELSE /\ energy' = Energies(y, gain, frame_length, hop_length)
            /\ pc' = "normalize"
            /\ UNCHANGED exc
    /\ UNCHANGED <<inputs, frame_length, hop_length, energy_norm, spikes,
                   timestamps, filtered, k, result, prev>>

\* line 17; np.max of an empty array raises ValueError
Normalize ==
    /\ pc = "normalize"
    /\ UNCHANGED <<locateVars, onsetVars, guiVars>>
    /\ IF energy = <<>>
       THEN /\ exc' = "ValueError"
            /\ pc' = "raised"
            /\ UNCHANGED energy_norm
       ELSE /\ energy_norm' = Normalized(energy)
            /\ pc' = "spikes"
            /\ UNCHANGED exc
    /\ UNCHANGED <<inputs, frame_length, hop_length, energy, spikes, timestamps,
                   filtered, k, result, prev>>

\* line 20
FindSpikes ==
    /\ pc = "spikes"
    /\ UNCHANGED <<locateVars, onsetVars, guiVars>>
    /\ spikes' = Spikes(energy_norm, energy_threshold)
    /\ pc' = "timestamps"
    /\ UNCHANGED <<inputs, frame_length, hop_length, energy, energy_norm,
                   timestamps, filtered, k, exc, result, prev>>

\* lines 23 and 26
ToTimestamps ==
    /\ pc = "timestamps"
    /\ UNCHANGED <<locateVars, onsetVars, guiVars>>
    /\ timestamps' = Timestamps(spikes, hop_length, sr)
    /\ filtered' = NewFiltered
    /\ k' = 0
    /\ pc' = "filter"
    /\ UNCHANGED <<inputs, frame_length, hop_length, energy, energy_norm, spikes,
                   exc, result, prev>>

\* lines 28-30: one iteration of the loop
FilterStep ==
    /\ pc = "filter"
    /\ UNCHANGED <<locateVars, onsetVars, guiVars>>
    /\ k < Len(timestamps)
    /\ filtered' = IF Accepts(filtered, timestamps[k + 1], min_time_between)
                   THEN Append(filtered, timestamps[k + 1])
                   ELSE filtered
    /\ k' = k + 1
    /\ UNCHANGED <<pc, inputs, frame_length, hop_length, energy, energy_norm,
                   spikes, timestamps, exc, result, prev>>

\* line 32
Return ==
    /\ pc = "filter"
    /\ UNCHANGED <<locateVars, onsetVars, guiVars>>
    /\ k = Len(timestamps)
    /\ pc' = "returned"
    /\ UNCHANGED <<inputs, locals, exc, result, prev>>

\* _detect_gunshot_task lines 977-981
TaskReturn ==
    /\ pc = "returned"
    /\ UNCHANGED <<locateVars, onsetVars, guiVars>>
    /\ result' = Detected(filtered)
    /\ pc' = "done"
    /\ UNCHANGED <<inputs, locals, exc, prev>>

\* _detect_gunshot_task lines 982-995: the exception is caught and printed
TaskExcept ==
    /\ pc = "raised"
    /\ UNCHANGED <<locateVars, onsetVars, guiVars>>
    /\ result' = NoDetections
    /\ pc' = "done"
    /\ UNCHANGED <<inputs, locals, exc, prev>>

\* the same file is analysed again with the same parameters
Again ==
    /\ pc = "done"
    /\ UNCHANGED <<locateVars, onsetVars, guiVars>>
    /\ prev' = [called |-> TRUE, exc |-> exc, result |-> result]
    /\ exc' = "none"
    /\ pc' = "frame"
    /\ UNCHANGED <<inputs, locals, result>>

\* the result is handed on and the call's objects are dropped
Finish ==
    /\ pc = "done"
    /\ UNCHANGED <<locateVars, onsetVars, guiVars>>
    /\ pc' = "idle"
    /\ y' = <<>> /\ sr' = 10 /\ gain' = 1
    /\ frame_duration' = 200000 /\ energy_threshold' = 5 /\ min_time_between' = 300000
    /\ frame_length' = 0 /\ hop_length' = 0
    /\ energy' = <<>> /\ energy_norm' = <<>> /\ spikes' = <<>> /\ timestamps' = <<>>
    /\ filtered' = <<>> /\ k' = 0
    /\ exc' = "none"
    /\ result' = NoDetections
    /\ prev' = NoCall

Next ==
    \/ Call
    \/ Frame
    \/ ComputeEnergy
    \/ Normalize
    \/ FindSpikes
    \/ ToTimestamps
    \/ FilterStep
    \/ Return
    \/ TaskReturn
    \/ TaskExcept
    \/ Again
    \/ Finish

Spec == Init /\ [][Next]_vars

-----------------------------------------------------------------------------
(* locate_gunshots, invoked by several workers at once *)

\* the timestamp the loop of line 61 is at
CurrentT(w) == l_timestamps[w][l_i[w] + 1]

\* the handler of lines 87-89 if it returned the markers built so far
RaiseKeepsMarkers(w, statement) ==
    /\ l_result' = [l_result EXCEPT ![w] = gunshots[w]]
    /\ l_failed' = [l_failed EXCEPT ![w] = statement]
    /\ l_pc' = [l_pc EXCEPT ![w] = "done"]

\* lines 87-89: an exception raised by `statement` inside the try block ends
\* the call with the result []
Raise(w, statement) ==
    /\ l_result' = [l_result EXCEPT ![w] = <<>>]
    /\ l_failed' = [l_failed EXCEPT ![w] = statement]
    /\ l_pc' = [l_pc EXCEPT ![w] = "done"]

\* main_gui lines 1045-1058: a worker is handed a recording
LocateStart(w) ==
    /\ l_pc[w] = "idle"
    /\ \E name \in DOMAIN Recordings : file_path' = [file_path EXCEPT ![w] = name]
    /\ l_pc' = [l_pc EXCEPT ![w] = "detect"]
    /\ UNCHANGED <<l_timestamps, l_i, clip, firearm_info, gunshots, l_result,
                   tempfiles, l_failed, detectVars, onsetVars, guiVars>>

\* lines 56 and 60; an exception of the detection is caught in lines 87-89
LocateDetect(w) ==
    /\ l_pc[w] = "detect"
    /\ LET d == BasicDetect(file_path[w])
       IN  IF d.exc # "none"
           THEN /\ Raise(w, "detect")
                /\ UNCHANGED <<l_timestamps, gunshots, l_i>>
           ELSE /\ l_timestamps' = [l_timestamps EXCEPT ![w] = d.out]
                /\ gunshots' = [gunshots EXCEPT ![w] = <<>>]
                /\ l_i' = [l_i EXCEPT ![w] = 0]
                /\ l_pc' = [l_pc EXCEPT ![w] = "loop"]
                /\ UNCHANGED <<l_result, l_failed>>
    /\ UNCHANGED <<file_path, clip, firearm_info, tempfiles, detectVars, onsetVars,
                   guiVars>>

\* line 63: librosa.load reads the segment, or raises (the recording has
\* become unreadable since line 56 read it)
LoadClip(w) ==
    /\ l_pc[w] = "loop"
    /\ l_i[w] < Len(l_timestamps[w])
    /\ \/ /\ clip' = [clip EXCEPT ![w] = LoadSegment(file_path[w], CurrentT(w))]
          /\ l_pc' = [l_pc EXCEPT ![w] = "write"]
          /\ UNCHANGED <<l_result, l_failed>>
       \/ /\ Raise(w, "load")
          /\ UNCHANGED clip
    /\ UNCHANGED <<file_path, l_timestamps, l_i, firearm_info, gunshots, tempfiles,
                   detectVars, onsetVars, guiVars>>

\* lines 64-66: sf.write creates the file or replaces its content, or raises
\* without creating it (the directory cannot be written)
WriteTemp(w) ==
    /\ l_pc[w] = "write"
    /\ \/ /\ tempfiles' = [tempfiles EXCEPT ![TempFile(CurrentT(w))] = clip[w]]
          /\ l_pc' = [l_pc EXCEPT ![w] = "categorize"]
          /\ UNCHANGED <<l_result, l_failed>>
       \/ /\ Raise(w, "write")
          /\ UNCHANGED tempfiles
    /\ UNCHANGED <<file_path, l_timestamps, l_i, clip, firearm_info, gunshots,
                   detectVars, onsetVars, guiVars>>

\* line 69
Categorize(w) ==
    /\ l_pc[w] = "categorize"
    /\ firearm_info' =
          [firearm_info EXCEPT ![w] = Classify(tempfiles[TempFile(CurrentT(w))])]
    /\ l_pc' = [l_pc EXCEPT ![w] = "remove"]
    /\ UNCHANGED <<file_path, l_timestamps, l_i, clip, gunshots, l_result,
                   tempfiles, l_failed, detectVars, onsetVars, guiVars>>

\* line 72: os.remove raises FileNotFoundError when the file is gone; when
\* the file is there it removes it, or raises another OSError and leaves it
\* (PermissionError while the file is still open elsewhere)
RemoveTemp(w) ==
    /\ l_pc[w] = "remove"
    /\ IF tempfiles[TempFile(CurrentT(w))] = NoFile
       THEN /\ Raise(w, "remove")
            /\ UNCHANGED tempfiles
       ELSE \/ /\ tempfiles' = [tempfiles EXCEPT ![TempFile(CurrentT(w))] = NoFile]
               /\ l_pc' = [l_pc EXCEPT ![w] = "append"]
               /\ UNCHANGED <<l_result, l_failed>>
            \/ /\ Raise(w, "remove_denied")
               /\ UNCHANGED tempfiles
    /\ UNCHANGED <<file_path, l_timestamps, l_i, clip, firearm_info, gunshots,
                   detectVars, onsetVars, guiVars>>

\* lines 74-83
AppendMarker(w) ==
    /\ l_pc[w] = "append"
    /\ gunshots' = [gunshots EXCEPT ![w] =
                       Append(gunshots[w], Marker(CurrentT(w), firearm_info[w]))]
    /\ l_i' = [l_i EXCEPT ![w] = l_i[w] + 1]
    /\ l_pc' = [l_pc EXCEPT ![w] = "loop"]
    /\ UNCHANGED <<file_path, l_timestamps, clip, firearm_info, l_result, tempfiles,
                   l_failed, detectVars, onsetVars, guiVars>>

\* line 86
LocateReturn(w) ==
    /\ l_pc[w] = "loop"
    /\ l_i[w] = Len(l_timestamps[w])
    /\ l_result' = [l_result EXCEPT ![w] = gunshots[w]]
    /\ l_pc' = [l_pc EXCEPT ![w] = "done"]
    /\ UNCHANGED <<file_path, l_timestamps, l_i, clip, firearm_info, gunshots,
                   tempfiles, l_failed, detectVars, onsetVars, guiVars>>

NextLocate ==
    \/ \E w \in Workers : LocateStart(w)
    \/ \E w \in Workers : LocateDetect(w)
    \/ \E w \in Workers : LoadClip(w)
    \/ \E w \in Workers : WriteTemp(w)
    \/ \E w \in Workers : Categorize(w)
    \/ \E w \in Workers : RemoveTemp(w)
    \/ \E w \in Workers : AppendMarker(w)
    \/ \E w \in Workers : LocateReturn(w)

SpecLocate == Init /\ [][NextLocate]_vars

-----------------------------------------------------------------------------
(* detect_gunshots_onset *)

\* lines 32-43: the file is loaded, the onsets are found, the loop starts
OnsetCall ==
    /\ o_pc = "idle"
    /\ o_sr' \in OnsetRates
    /\ min_separation' \in OnsetSeparations
    /\ \E S \in SUBSET OnsetFrameChoices : onset_frames' = SortedSeq(S)
    /\ o_filtered' = <<>>
    /\ last_time' = <<TRUE, 0>>
    /\ o_k' = 0
    /\ o_pc' = "loop"
    /\ UNCHANGED <<detectVars, locateVars, guiVars>>

\* lines 44-47: one iteration of the loop
OnsetStep ==
    /\ o_pc = "loop"
    /\ o_k < Len(onset_frames)
    /\ LET f == onset_frames[o_k + 1]
       IN  IF last_time[1] \/ OnsetGt(f, last_time[2], min_separation, o_sr)
           THEN /\ o_filtered' = Append(o_filtered, RoundedOnset(f, o_sr))
                /\ last_time' = <<FALSE, f>>
           ELSE UNCHANGED <<o_filtered, last_time>>
    /\ o_k' = o_k + 1
    /\ UNCHANGED <<o_pc, o_sr, min_separation, onset_frames, detectVars, locateVars,
                   guiVars>>

\* line 49
OnsetReturn ==
    /\ o_pc = "loop"
    /\ o_k = Len(onset_frames)
    /\ o_pc' = "returned"
    /\ UNCHANGED <<o_sr, min_separation, onset_frames, last_time, o_filtered, o_k,
                   detectVars, locateVars, guiVars>>

\* the caller takes the list; the next file can be analysed
OnsetFinish ==
    /\ o_pc = "returned"
    /\ o_pc' = "idle"
    /\ o_sr' = 22050
    /\ min_separation' = 500000
    /\ onset_frames' = <<>>
    /\ last_time' = <<TRUE, 0>>
    /\ o_filtered' = <<>>
    /\ o_k' = 0
    /\ UNCHANGED <<detectVars, locateVars, guiVars>>

NextOnset ==
    \/ OnsetCall
    \/ OnsetStep
    \/ OnsetReturn
    \/ OnsetFinish

SpecOnset == Init /\ [][NextOnset]_vars

-----------------------------------------------------------------------------
(* GunshotDetectionApp: one action per slot of the main thread, one for the *)
(* run of a background thread                                              *)

\* PopupWindow is modal (line 281): while one is shown the window takes no
\* input, so no slot that a click or a key triggers runs
NoPopupShown == \A j \in DOMAIN popups : ~popups[j]

CanClick == ~aborted /\ NoPopupShown

\* ProcessingThread.__init__ lines 330-334 and start()
Started(task_func, arg, by) ==
    [task |-> task_func, arg |-> arg, st |-> "started", result |-> <<>>,
     run_all |-> by = "run_all"]

\* process_with_popup lines 696-704 (show_processing_popup lines 691-694):
\* a new popup is shown and becomes self.popup, a new thread is started and
\* becomes self.processing_thread
process_with_popup(task_func, arg) ==
    /\ Len(threads) < MaxTasks
    /\ popups' = Append(popups, TRUE)
    /\ popup' = Len(popups) + 1
    /\ threads' = Append(threads, Started(task_func, arg, "button"))
    /\ processing_thread' = Len(threads) + 1
    /\ UNCHANGED <<signals, handled, aborted>>

\* load_file lines 791-798
LoadFile ==
    /\ CanClick
    /\ \E fname \in GuiFiles : process_with_popup("load", fname)
    /\ UNCHANGED <<fileVars, markerVars, playbackVars, detectVars, locateVars,
                   onsetVars>>

\* the user edits the energy threshold field (line 426)
EditThreshold ==
    /\ CanClick
    /\ \E thr \in GuiThresholds \ {energy_threshold_text} :
          energy_threshold_text' = thr
    /\ UNCHANGED <<current_file, audio_data, locate_btn, taskVars, markerVars,
                   playbackVars, detectVars, locateVars, onsetVars>>

\* detect_gunshot_handler lines 950-958
DetectGunshotHandler ==
    /\ CanClick
    /\ current_file # "none"
    /\ process_with_popup("detect", current_file)
    /\ UNCHANGED <<fileVars, markerVars, playbackVars, detectVars, locateVars,
                   onsetVars>>

\* locate_gunshots_handler lines 1045-1055, from the Locate button
LocateGunshotsHandler ==
    /\ CanClick
    /\ locate_btn
    /\ current_file # "none"
    /\ process_with_popup("locate", current_file)
    /\ UNCHANGED <<fileVars, markerVars, playbackVars, detectVars, locateVars,
                   onsetVars>>

\* run_all lines 1070-1072: detect_gunshot_handler, then
\* locate_gunshots_handler, in one slot.  The second process_with_popup
\* replaces self.popup and self.processing_thread.  The detection thread
\* thereby loses its only reference unless its run() has been entered
\* meanwhile; a QThread destroyed while it runs ends the process.
RunAll ==
    /\ CanClick
    /\ current_file # "none"
    /\ Len(threads) + 2 <= MaxTasks
    /\ \E entered \in BOOLEAN :
          /\ threads' = threads \o
                <<[Started("detect", current_file, "run_all") EXCEPT
                      !.st = IF entered THEN "running" ELSE "destroyed"],
                  Started("locate", current_file, "run_all")>>
          /\ aborted' = ~entered
    /\ popups' = popups \o <<TRUE, TRUE>>
    /\ popup' = Len(popups) + 2
    /\ processing_thread' = Len(threads) + 2
    /\ UNCHANGED <<signals, handled, fileVars, markerVars, playbackVars,
                   detectVars, locateVars, onsetVars>>

\* what the task function of a thread returns: _load_file_task raises when
\* the file cannot be decoded, locate_gunshots returns [] when a statement
\* of its loop raises (processing.py lines 87-89)
TaskOutcomes(t) ==
    IF t.task = "load"
    THEN {[signal |-> "finished", result |-> LoadFileTask(t.arg)],
          [signal |-> "error", result |-> <<>>]}
    ELSE IF t.task = "detect"
    THEN {[signal |-> "finished",
           result |-> DetectGunshotTask(t.arg, energy_threshold_text)]}
    ELSE {[signal |-> "finished", result |-> LocateGunshotsTask(t.arg)],
          [signal |-> "finished", result |-> <<>>]}

\* ProcessingThread.run lines 336-341: the task function runs in the
\* background and its outcome is queued for the main thread as a signal
ProcessingThreadRun(i) ==
    /\ ~aborted
    /\ i \in DOMAIN threads
    /\ threads[i].st \in {"started", "running"}
    /\ \E o \in TaskOutcomes(threads[i]) :
          /\ threads' = [threads EXCEPT ![i].st = "emitted", ![i].result = o.result]
          /\ signals' = Append(signals, [thread |-> i, signal |-> o.signal])
    /\ UNCHANGED <<popups, popup, processing_thread, handled, aborted, fileVars,
                   markerVars, playbackVars, detectVars, locateVars, onsetVars>>

\* hide_processing_popup lines 782-784: self.popup is closed
hide_processing_popup ==
    popups' = IF popup \in DOMAIN popups THEN [popups EXCEPT ![popup] = FALSE]
              ELSE popups

\* the slot connected to the signal at the head of the queue runs
Deliver(signal, task_func) ==
    /\ ~aborted
    /\ signals # <<>>
    /\ Head(signals).signal = signal
    /\ threads[Head(signals).thread].task = task_func
    /\ signals' = Tail(signals)
    /\ threads' = [threads EXCEPT ![Head(signals).thread].st = "handled"]
    /\ handled' = Append(handled, Head(signals).thread)
    /\ UNCHANGED <<popup, processing_thread, aborted>>

Delivered == threads[Head(signals).thread].result

\* handle_processing_error lines 786-789
HandleProcessingError ==
    /\ Deliver("error", "load")
    /\ hide_processing_popup
    /\ UNCHANGED <<fileVars, markerVars, playbackVars, detectVars, locateVars,
                   onsetVars>>

\* _handle_processing_result lines 706-720 on the result of _load_file_task,
\* and timeline_loaded lines 814-826
HandleLoadResult ==
    /\ Deliver("finished", "load")
    /\ hide_processing_popup
    /\ current_file' = Delivered.filename
    /\ audio_data' = Delivered.audio_data
    /\ locate_btn' = TRUE
    /\ UNCHANGED <<energy_threshold_text, markerVars, playbackVars, detectVars,
                   locateVars, onsetVars>>

\* _handle_processing_result lines 706-722 and _handle_detection_result
\* lines 997-1043
HandleDetectionResult ==
    /\ Deliver("finished", "detect")
    /\ hide_processing_popup
    /\ locate_btn' = Delivered.presence
    /\ gunshot_locations' = DetectionLocations(current_file, Delivered)
    /\ gunshot_markers' = DetectionLocations(current_file, Delivered)
    /\ UNCHANGED <<current_file, audio_data, energy_threshold_text, playbackVars,
                   detectVars, locateVars, onsetVars>>

\* _handle_processing_result lines 706-724 and _handle_locate_result lines
\* 1060-1068
HandleLocateResult ==
    /\ Deliver("finished", "locate")
    /\ hide_processing_popup
    /\ gunshot_locations' = LocateLocations(Delivered)
    /\ gunshot_markers' = LocateLocations(Delivered)
    /\ UNCHANGED <<fileVars, playbackVars, detectVars, locateVars, onsetVars>>

\* the playback fields take the values of the record
SetPlayback(p) ==
    /\ is_playing' = p.is_playing
    /\ current_stream' = p.current_stream
    /\ playback_position' = p.playback_position
    /\ scrub_slider' = p.scrub_slider

\* the Play button (line 532): toggle_playback
TogglePlayback ==
    /\ CanClick
    /\ audio_data # NoAudio
    /\ \E device \in BOOLEAN : SetPlayback(toggle_playback(Playback, audio_data, device))
    /\ UNCHANGED <<taskVars, fileVars, markerVars, detectVars, locateVars, onsetVars>>

\* the timer of line 890 fires while playback runs: update_playback
UpdatePlayback ==
    /\ ~aborted
    /\ is_playing
    /\ \E written \in BOOLEAN :
          SetPlayback(update_playback(Playback, audio_data, written))
    /\ UNCHANGED <<taskVars, fileVars, markerVars, detectVars, locateVars, onsetVars>>

\* the user moves the slider (line 565): scrub_audio
ScrubAudio ==
    /\ CanClick
    /\ audio_data # NoAudio
    /\ \E value \in SliderStops \ {scrub_slider}, device \in BOOLEAN :
          SetPlayback(scrub([Playback EXCEPT !.scrub_slider = value], audio_data,
                            device))
    /\ UNCHANGED <<taskVars, fileVars, markerVars, detectVars, locateVars, onsetVars>>

\* scrub_to_position lines 862-869 (called by the timeline's mouse events,
\* lines 125-129 and 136-142); line 864 sets the slider
ScrubToPosition ==
    /\ CanClick
    /\ audio_data # NoAudio
    /\ \E position \in PositionStops, device \in BOOLEAN :
          /\ position # scrub_slider
          /\ SetPlayback(scrub([Playback EXCEPT !.scrub_slider = position],
                               audio_data, device))
    /\ UNCHANGED <<taskVars, fileVars, markerVars, detectVars, locateVars, onsetVars>>

NextGui ==
    \/ LoadFile
    \/ EditThreshold
    \/ DetectGunshotHandler
    \/ LocateGunshotsHandler
    \/ RunAll
    \/ \E i \in 1..MaxTasks : ProcessingThreadRun(i)
    \/ HandleProcessingError
    \/ HandleLoadResult
    \/ HandleDetectionResult
    \/ HandleLocateResult
    \/ TogglePlayback
    \/ UpdatePlayback
    \/ ScrubAudio
    \/ ScrubToPosition

SpecGui == Init /\ [][NextGui]_vars

-----------------------------------------------------------------------------
(* Vocabulary of the properties *)

Range(f) == {f[i] : i \in DOMAIN f}

\* the parameter triple is one the specification allows, and the frame grid exists
ParamsOK ==
    /\ frame_duration > 0
    /\ energy_threshold >= 0
    /\ min_time_between >= 0
    /\ FrameLength(frame_duration, sr) >= 1
    /\ HopLength(FrameLength(frame_duration, sr)) >= 1

Silent == \A i \in DOMAIN y : y[i] = 0

\* detect_gunshots has ended, by return or by exception
Ended == pc \in {"returned", "raised"}

StrictlyAscending(f) == \A i, j \in DOMAIN f : i < j => f[i] < f[j]

\* every two timestamps of f lie more than sep microseconds apart
Separated(f, sep) == \A i, j \in DOMAIN f : i < j => (f[j] - f[i]) * 1000 > sep

RECURSIVE RefScan(_, _, _, _, _)
\* the reference scan: `last` is <<TRUE, 0>> for -infinity, else <<FALSE, time>>
RefScan(accepted, last, ts, j, sep) ==
    IF j > Len(ts) THEN accepted
    ELSE IF last[1] \/ SubGt(ts[j], last[2], sep)
         THEN RefScan(Append(accepted, ts[j]), <<FALSE, ts[j]>>, ts, j + 1, sep)
         ELSE RefScan(accepted, last, ts, j + 1, sep)

RefDedupe(ts, sep) == RefScan(<<>>, <<TRUE, 0>>, ts, 1, sep)

\* y is zero everywhere except one sample of amplitude 1.0 at index kk
UnitImpulseAt(kk) ==
    /\ gain = 1
    /\ kk + 1 \in DOMAIN y
    /\ \A i \in DOMAIN y : y[i] = IF i = kk + 1 THEN 2 ELSE 0

\* t (ms) is num / den seconds rounded to the nearest millisecond
Nearest3(t, num, den) ==
    /\ 2 * (t * den - num * 1000) <= den
    /\ 2 * (num * 1000 - t * den) <= den

\* frame i is the first frame of the grid that contains sample kk
FirstFrameWith(i, kk) ==
    /\ i * hop_length <= kk
    /\ kk < i * hop_length + frame_length
    /\ i = 0 \/ (i - 1) * hop_length + frame_length <= kk

\* the setting of the impulse claims: a valid call whose threshold lies below
\* the top score and whose separation merges the frames that share a sample
ImpulseSetting ==
    /\ ParamsOK
    /\ energy_threshold < 10
    /\ min_time_between >= frame_duration + 2000

Abs(a) == IF a >= 0 THEN a ELSE -a

\* the frames whose normalized score exceeds the threshold
Exceeding ==
    {i \in 0..(Len(energy) - 1) :
        MaxOf(energy) > 0 /\ energy[i + 1] * 10 > energy_threshold * MaxOf(energy)}

\* round(i * hop_length / sr, 3) in milliseconds, for hop_length >= 0
Rounded3(i) ==
    CHOOSE t \in 0..(i * hop_length * 1000 + 1) : Nearest3(t, i * hop_length, sr)

\* the rounded timestamps of the exceeding frames, by ascending frame index
RoundedCandidates ==
    LET idx == SortedSeq(Exceeding)
    IN  [j \in DOMAIN idx |-> Rounded3(idx[j])]

RECURSIVE IsSubseq(_, _)
\* a is b with some elements dropped
IsSubseq(a, b) ==
    IF a = <<>> THEN TRUE
    ELSE IF b = <<>> THEN FALSE
    ELSE IF a[1] = b[1] THEN IsSubseq(Tail(a), Tail(b))
    ELSE IsSubseq(a, Tail(b))

\* lines 9 and 10 have run in the current call
Framed == pc \in {"energy", "normalize", "spikes", "timestamps", "filter",
                  "returned", "raised", "done"}

RECURSIVE SumOver(_, _)
\* the sum of the float32 squares of the samples with (0-based) index in S
SumOver(S, sig) ==
    IF S = {} THEN 0
    ELSE LET j == CHOOSE x \in S : TRUE
         IN  Sq32(sig[j + 1], gain) + SumOver(S \ {j}, sig)

\* the sample indices of the impulses of ThreeImpulses
ImpulseSamples == <<3, 11, 19>>

\* the end-to-end scenario, scaled to 10 Hz: three impulses 0.8 s apart, well
\* above the background, frames of 0.2 s or 0.4 s, a threshold between the
\* background's score and the impulses', and a separation that exceeds the
\* frame overlap and stays below the impulse spacing minus one frame
ThreeImpulseScenario ==
    /\ y = ThreeImpulses /\ gain = 1 /\ sr = 10
    /\ frame_duration \in {200000, 400000}
    /\ energy_threshold \in {5, 6}
    /\ min_time_between \in {299990, 300000}

-----------------------------------------------------------------------------
(* Properties *)

\* C1: the list detect_gunshots returns is strictly ascending and every two
\* of its timestamps differ by more than min_time_between, for every signal
\* and every parameter triple.
C1_AscendingSeparated ==
    pc = "returned" =>
        StrictlyAscending(filtered) /\ Separated(filtered, min_time_between)

\* C2: the filter loop is the greedy scan against the last ACCEPTED time:
\* after k candidates it holds exactly what the reference algorithm returns
\* for those k candidates, and so does the returned list.
C2_GreedyScan ==
    pc \in {"filter", "returned"} =>
        filtered = RefDedupe(SubSeq(timestamps, 1, k), min_time_between)

\* C2 witness: a candidate was accepted although it lies within
\* min_time_between of the raw candidate before it.
C2_Witness ==
    /\ pc = "returned"
    /\ min_time_between > 0
    /\ \E j \in 2..Len(timestamps) :
          /\ timestamps[j] \in Range(filtered)
          /\ ~SubGt(timestamps[j], timestamps[j - 1], min_time_between)

\* C3: the boundary is strict: no accepted time lies exactly
\* min_time_between after the accepted time before it; candidates 1.000 and
\* 1.300 give [1.000] with min_time_between 0.3 and [1.000, 1.300] with 0.29999.
C3_StrictBoundary ==
    pc = "returned" =>
        /\ \A j \in 2..Len(filtered) :
              (filtered[j] - filtered[j - 1]) * 1000 # min_time_between
        /\ (timestamps = <<1000, 1300>> /\ min_time_between = 300000)
              => filtered = <<1000>>
        /\ (timestamps = <<1000, 1300>> /\ min_time_between = 299990)
              => filtered = <<1000, 1300>>

\* C4: for a silent signal of any length (and valid parameters) detect
\* returns the empty list without failing, every normalized score being zero.
C4_SilentEmpty ==
    (Ended /\ Silent /\ ParamsOK) =>
        /\ pc = "returned"
        /\ filtered = <<>>
        /\ \A i \in DOMAIN energy_norm :
              ~IsNaN(energy_norm[i]) /\ energy_norm[i][1] = 0

\* C5: for an empty signal (and valid parameters) detect returns the empty
\* list; it does not raise.
C5_EmptySignal ==
    (Ended /\ y = <<>> /\ ParamsOK) => (pc = "returned" /\ filtered = <<>>)

\* C6: when frame_length is below 1 or hop_length is 0, detect fails with
\* InvalidParameter: it returns no list, and its caller does not report the
\* failure as an ordinary "no detections" result.
C6_InvalidFrameGrid ==
    (pc \in {"returned", "raised", "done"} /\ (frame_length < 1 \/ hop_length = 0)) =>
        /\ pc # "returned"
        /\ exc = "InvalidParameter"
        /\ pc = "done" => result # NoDetections

\* C7: with sample_rate <= 0, frame_duration <= 0, energy_threshold < 0 or
\* min_separation < 0 detect fails with InvalidParameter before any frame
\* score is computed, and never returns a list.
C7_FailFast ==
    (sr <= 0 \/ frame_duration <= 0 \/ energy_threshold < 0 \/ min_time_between < 0) =>
        /\ pc \notin {"normalize", "spikes", "timestamps", "filter", "returned"}
        /\ pc \in {"raised", "done"} => exc = "InvalidParameter"

\* C8: threshold monotonicity of the deduplicated output: for the same
\* signal, frame_duration and min_time_between, a threshold b at or above the
\* one used returns no more timestamps than the call returned.
C8_ThresholdMonotone ==
    pc = "returned" =>
        \A b \in Thresholds :
            b >= energy_threshold =>
                LET d == Detect(y, gain, sr, frame_duration, b, min_time_between)
                IN  d.exc = "none" /\ Len(d.out) <= Len(filtered)

\* C8 witness: a higher threshold strictly shrinks a deduplicated,
\* non-empty output.
C8_Witness ==
    /\ pc = "returned"
    /\ ParamsOK
    /\ Len(filtered) < Len(timestamps)
    /\ \E b \in Thresholds :
          /\ b > energy_threshold
          /\ LET d == Detect(y, gain, sr, frame_duration, b, min_time_between)
             IN  0 < Len(d.out) /\ Len(d.out) < Len(filtered)

\* C9: separation monotonicity: for the same signal, frame_duration and
\* energy_threshold, a separation b at or above the one used returns no more
\* timestamps than the call returned.
C9_SeparationMonotone ==
    pc = "returned" =>
        \A b \in Separations :
            b >= min_time_between =>
                LET d == Detect(y, gain, sr, frame_duration, energy_threshold, b)
                IN  d.exc = "none" /\ Len(d.out) <= Len(filtered)

\* C9 witness: a larger separation strictly shrinks a non-empty output.
C9_Witness ==
    /\ pc = "returned"
    /\ ParamsOK
    /\ \E b \in Separations :
          /\ b > min_time_between
          /\ LET d == Detect(y, gain, sr, frame_duration, energy_threshold, b)
             IN  0 < Len(d.out) /\ Len(d.out) < Len(filtered)

\* C10: detect is pure: a second run on the same signal and parameters ends
\* the same way (same exception or same list, same dictionary for the
\* caller), whatever the first run left behind.
C10_Pure ==
    prev.called =>
        /\ pc = "returned" => filtered = prev.result.timestamps /\ prev.exc = "none"
        /\ pc = "raised" => exc = prev.exc
        /\ pc = "done" => result = prev.result /\ exc = prev.exc

\* C10 witness: a second run has returned two or more timestamps.
C10_Witness ==
    /\ pc = "done"
    /\ prev.called
    /\ Len(result.timestamps) >= 2

\* C11 as stated: for a single unit impulse at sample kk, detect returns
\* exactly one timestamp, and it differs from round(kk / sr, 3) by at most one
\* hop (hop_length / sr seconds).
C11_ImpulseWithinHop ==
    pc = "returned" /\ ImpulseSetting =>
        \A kk \in 0..(Len(y) - 1) :
            UnitImpulseAt(kk) =>
                /\ Len(filtered) = 1
                /\ Abs(filtered[1] - RoundHalfEven(kk * 1000, sr)) * sr
                       <= hop_length * 1000

\* C11 amended: for a single unit impulse at sample kk, with
\* 0 <= energy_threshold < 1 and min_time_between >= frame_duration + 0.002,
\* detect returns exactly one timestamp: the rounded start of the FIRST frame
\* that contains sample kk, which lies at most frame_length - 1 samples
\* (nearly two hops) before the impulse.
C11_ImpulseFirstFrame ==
    pc = "returned" /\ ImpulseSetting =>
        \A kk \in 0..(Len(y) - 1) :
            UnitImpulseAt(kk) =>
                /\ Len(filtered) = 1
                /\ \E i \in 0..kk :
                      /\ FirstFrameWith(i, kk)
                      /\ Nearest3(filtered[1], i * hop_length, sr)
                      /\ kk - i * hop_length <= frame_length - 1

\* C11 witness: the one timestamp of a unit impulse lies more than one hop
\* before the impulse.
C11_Witness ==
    /\ pc = "returned"
    /\ ImpulseSetting
    /\ Len(filtered) = 1
    /\ \E kk \in 0..(Len(y) - 1), i \in 0..Len(y) :
          /\ UnitImpulseAt(kk)
          /\ FirstFrameWith(i, kk)
          /\ kk - i * hop_length > hop_length
          /\ Nearest3(filtered[1], i * hop_length, sr)

C13_ScaleInvariant ==
    pc = "returned" /\ ParamsOK =>
        \A g \in Gains :
            Detect(y, g, sr, frame_duration, energy_threshold, min_time_between)
                = [exc |-> "none", out |-> filtered]

\* the invocation was ended by a failure that does not come from the other
\* invocation: the recording or the directory became unusable
OutsideFailure(w) == l_failed[w] \in {"load", "write", "remove_denied"}

\* C14: concurrent invocations on different recordings need no
\* coordination: under every interleaving, every invocation of
\* locate_gunshots that has ended returned exactly what it returns when it
\* runs alone on its recording.
C14_NoInterference ==
    \A w \in Workers :
        (/\ l_pc[w] = "done"
         /\ \A v \in Workers \ {w} : file_path[v] # file_path[w]
         /\ \A v \in Workers : ~OutsideFailure(v)) =>
            l_result[w] =
                LET d == BasicDetect(file_path[w])
                IN  IF d.exc # "none" THEN <<>>
                    ELSE [j \in DOMAIN d.out |->
                            Marker(d.out[j],
                                   ClassifyContent(LoadSegment(file_path[w], d.out[j])))]

\* C15: numeric edge cases never make detect throw (valid parameters, a
\* non-empty signal): a zero-energy signal yields an empty result, a
\* single-frame signal (length <= hop_length) an empty or singleton result,
\* and a non-silent single-frame signal with energy_threshold < 1 yields
\* exactly one timestamp, 0.0.
C15_EdgeCases ==
    (Ended /\ ParamsOK /\ y # <<>> /\ (Silent \/ Len(y) <= hop_length)) =>
        /\ pc = "returned"
        /\ Silent => filtered = <<>>
        /\ Len(y) <= hop_length => Len(filtered) <= 1
        /\ (Len(y) <= hop_length /\ ~Silent /\ energy_threshold < 10)
              => filtered = <<0>>

\* C16: spike detection selects exactly the frame indices whose normalized
\* score is strictly greater than energy_threshold (a score equal to the
\* threshold is no candidate), in ascending order; when no score exceeds the
\* threshold the candidate sequence is empty and no error is raised.
C16_StrictSpikes ==
    pc \in {"timestamps", "filter", "returned"} =>
        /\ exc = "none"
        /\ StrictlyAscending(spikes)
        /\ Range(spikes) =
              {i \in 0..(Len(energy) - 1) :
                  /\ MaxOf(energy) > 0
                  /\ energy[i + 1] * 10 > energy_threshold * MaxOf(energy)}

\* C16 witness: some frame's score equals the threshold and is left out,
\* while another frame is a candidate.
C16_Witness ==
    /\ pc = "timestamps"
    /\ spikes # <<>>
    /\ \E i \in 0..(Len(energy) - 1) :
          /\ MaxOf(energy) > 0
          /\ energy[i + 1] * 10 = energy_threshold * MaxOf(energy)
          /\ i \notin Range(spikes)

\* C17: framing on a frame grid (hop_length >= 1): frame i starts at sample i * hop_length for every i with
\* i * hop_length < len(y), so there are ceil(len / hop_length) frames; each
\* frame's raw score is the sum of the squared samples in
\* [i*hop_length, min(i*hop_length + frame_length, len)); trailing frames
\* shorter than frame_length are scored on what remains, not padded or skipped.
C17_Framing ==
    (pc \in {"normalize", "spikes", "timestamps", "filter", "returned"}
        /\ hop_length >= 1) =>
        /\ \A i \in 0..Len(y) : i * hop_length < Len(y) <=> i + 1 \in DOMAIN energy
        /\ Len(energy) * hop_length >= Len(y)
        /\ Len(energy) > 0 => (Len(energy) - 1) * hop_length < Len(y)
        /\ \A i \in 0..(Len(energy) - 1) :
              energy[i + 1] =
                  SumOver({j \in 0..(Len(y) - 1) :
                              /\ i * hop_length <= j
                              /\ j < i * hop_length + frame_length}, y)

\* C17 witness: the last frame is shorter than frame_length and has a
\* non-zero score, and it is not the only frame.
C17_Witness ==
    /\ pc = "normalize"
    /\ Len(energy) >= 2
    /\ (Len(energy) - 1) * hop_length + frame_length > Len(y)
    /\ energy[Len(energy)] > 0

\* C18 as stated: frame_length equals frame_duration * sample_rate rounded
\* to the nearest integer (not truncated), and hop_length equals
\* floor(frame_length / 2).
C18_RoundedFrameLength ==
    Framed =>
        /\ 2 * Abs(frame_length * 1000000 - frame_duration * sr) <= 1000000
        /\ 2 * hop_length <= frame_length
        /\ frame_length < 2 * hop_length + 2

\* C18 amended: frame_length equals frame_duration * sample_rate truncated
\* toward zero (int(...)), and hop_length equals floor(frame_length / 2).
C18_TruncatedFrameLength ==
    Framed =>
        /\ frame_duration * sr >= 0 =>
              /\ frame_length * 1000000 <= frame_duration * sr
              /\ frame_duration * sr < (frame_length + 1) * 1000000
        /\ frame_duration * sr < 0 =>
              /\ frame_duration * sr <= frame_length * 1000000
              /\ (frame_length - 1) * 1000000 < frame_duration * sr
        /\ 2 * hop_length <= frame_length
        /\ frame_length < 2 * hop_length + 2

\* C18 witness: the product frame_duration * sample_rate has a fractional
\* part above one half, and the frame grid it yields is valid.
C18_Witness ==
    /\ pc = "energy"
    /\ 2 * ((frame_duration * sr) % 1000000) > 1000000
    /\ frame_length >= 2
    /\ hop_length >= 1

\* C19: detect_gunshots runs its steps in the order score, normalize,
\* threshold, map to rounded timestamps, deduplicate: each step starts where
\* the one before it ended and is the only one that writes its array; so the
\* returned list is the deduplication of the ROUNDED timestamps
\* round(i * hop_length / sr, 3) of the frames i whose normalized score
\* exceeds energy_threshold.
C19_StepOrder ==
    /\ [][ /\ pc' = "normalize" /\ pc # "normalize" => pc = "energy"
           /\ pc' = "spikes" => pc = "normalize"
           /\ pc' = "timestamps" => pc = "spikes"
           /\ pc' = "filter" /\ pc # "filter" => pc = "timestamps"
           /\ pc' = "returned" => pc = "filter"
           /\ pc' # "idle" =>
                 /\ energy' # energy => pc = "energy"
                 /\ energy_norm' # energy_norm => pc = "normalize"
                 /\ spikes' # spikes => pc = "spikes"
                 /\ timestamps' # timestamps => pc = "timestamps"
                 /\ filtered' # filtered => pc \in {"timestamps", "filter"} ]_vars
    /\ [](pc = "returned" =>
             filtered = RefDedupe(RoundedCandidates, min_time_between))

\* C19 witness: two candidate frames round to the same millisecond and the
\* separation is 0, so the comparison of the rounded values drops the second
\* although its unrounded time is larger.
C19_Witness ==
    /\ pc = "returned"
    /\ min_time_between = 0
    /\ \E j \in 1..(Len(timestamps) - 1) :
          /\ timestamps[j] = timestamps[j + 1]
          /\ spikes[j] < spikes[j + 1]
    /\ Len(filtered) < Len(timestamps)

\* C20: detect_gunshots_onset rounds the candidate times to 3 decimals
\* BEFORE deduplication: for every ascending sequence of onset times its
\* output equals the reference deduplication of the rounded times.
C20_OnsetRoundFirst ==
    o_pc = "returned" =>
        o_filtered =
            RefDedupe([j \in DOMAIN onset_frames |-> RoundedOnset(onset_frames[j], o_sr)],
                      min_separation)

\* C21: the list detect_gunshots_onset returns (values rounded to 3
\* decimals) is strictly increasing, and no two of its timestamps lie closer
\* than or exactly min_separation apart.
C21_OnsetSeparated ==
    o_pc = "returned" =>
        StrictlyAscending(o_filtered) /\ Separated(o_filtered, min_separation)

\* C22: no implementation uses a parameter value the caller cannot supply:
\* for every signal, frame_duration and energy_threshold the TESTSCRIPTS
\* detect_gunshots returns the list the GunshotDetection detect_gunshots
\* returned for the min_time_between its caller chose.
C22_NoHiddenSeparation ==
    (pc = "returned" /\ ParamsOK) =>
        TestScriptDetect(y, gain, sr, frame_duration, energy_threshold)
            = [exc |-> "none", out |-> filtered]

\* C23: the wrapper reports presence = (number of timestamps > 0) and
\* confidence = min(95, 10 * number of timestamps); so confidence lies in
\* [0, 95] and presence holds exactly when confidence > 0; when the
\* detection raised, the result is presence False, confidence 0, no
\* timestamps.
C23_Wrapper ==
    pc = "done" =>
        /\ exc = "none" =>
              /\ result.timestamps = filtered
              /\ result.presence = (Len(filtered) > 0)
              /\ result.confidence =
                    IF Len(filtered) * 10 <= 95 THEN Len(filtered) * 10 ELSE 95
        /\ exc # "none" =>
              /\ result.presence = FALSE
              /\ result.confidence = 0
              /\ result.timestamps = <<>>
        /\ 0 <= result.confidence /\ result.confidence <= 95
        /\ result.presence <=> result.confidence > 0

\* C23 witness: ten or more timestamps, so the cap of 95 applies.
C23_Witness ==
    /\ pc = "done"
    /\ exc = "none"
    /\ Len(result.timestamps) >= 10
    /\ result.confidence = 95

\* C24: for any non-empty, non-silent signal and any energy_threshold < 1
\* (on a valid frame grid) detect_gunshots returns at least one timestamp.
C24_AtLeastOne ==
    (Ended /\ y # <<>> /\ ~Silent /\ energy_threshold < 10
        /\ frame_length >= 1 /\ hop_length >= 1) =>
        pc = "returned" /\ Len(filtered) >= 1

\* C25: with energy_threshold = 1 detect_gunshots returns an empty list for
\* every signal (on a valid frame grid).
C25_ThresholdOne ==
    (Ended /\ energy_threshold = 10 /\ frame_length >= 1 /\ hop_length >= 1) =>
        pc = "returned" /\ filtered = <<>>

\* C26: the dedup scan only drops candidates: its output is a subsequence of
\* the rounded candidate times, its first element is the time of the
\* earliest candidate frame, and it is empty only when there are no
\* candidates.
C26_OnlyDrops ==
    pc = "returned" =>
        /\ IsSubseq(filtered, timestamps)
        /\ timestamps # <<>> => (filtered # <<>> /\ filtered[1] = timestamps[1])
        /\ timestamps = <<>> => filtered = <<>>
        /\ Len(timestamps) = Len(spikes)
        /\ spikes # <<>> =>
              Nearest3(timestamps[1], spikes[1] * hop_length, sr)

\* C26 witness: a candidate between two kept ones was dropped.
C26_Witness ==
    /\ pc = "returned"
    /\ Len(filtered) >= 2
    /\ \E j \in 2..(Len(timestamps) - 1) :
          /\ timestamps[j] \notin Range(filtered)
          /\ filtered[1] < timestamps[j]
          /\ timestamps[j] < filtered[Len(filtered)]

\* the two tasks run_all started, in the order their results were handled
RunAllHandled == SelectSeq(handled, LAMBDA i : threads[i].run_all)

\* what the slot of a handled task assigns to gunshot_locations
LocationsFrom(i) ==
    IF threads[i].task = "detect"
    THEN DetectionLocations(threads[i].arg, threads[i].result)
    ELSE LocateLocations(threads[i].result)

\* no locate task ended by an exception inside locate_gunshots
NoLocateFailure ==
    \A i \in DOMAIN threads :
        (threads[i].task = "locate" /\ threads[i].st = "handled") =>
            threads[i].result = LocateGunshotsTask(threads[i].arg)

\* C27: every processing popup is closed once its background task has
\* finished or failed; after run_all, when both tasks have delivered their
\* results (and no task is left running), no popup remains open.
C27_PopupsClosed ==
    (threads # <<>> /\ \A i \in DOMAIN threads : threads[i].st = "handled") =>
        NoPopupShown

\* C28: after run_all the final gunshot_locations and timeline markers do
\* not depend on which of the two tasks finishes first: the markers the
\* window holds when both results are handled are also the markers the
\* opposite order leaves, which are those of the task handled first here.
C28_OrderIndependent ==
    (Len(RunAllHandled) = 2 /\ NoLocateFailure) =>
        /\ gunshot_locations = LocationsFrom(RunAllHandled[1])
        /\ gunshot_markers = LocationsFrom(RunAllHandled[1])

\* C29: playback state stays consistent under every sequence of
\* toggle_playback, update_playback, scrub_to_position, scrub_audio,
\* stop_playback and file loads: is_playing implies that an output stream
\* exists, and 0 <= playback_position <= len(audio_data) whenever audio is
\* loaded.
C29_PlaybackConsistent ==
    /\ is_playing => current_stream
    /\ audio_data # NoAudio =>
          (0 <= playback_position /\ playback_position <= audio_data)

\* the timestamps whose temporary clip invocation w has written and
\* classified: those of the finished iterations, and the one whose removal
\* raised
WrittenAndClassified(w) ==
    {l_timestamps[w][j] :
        j \in 1..(l_i[w] + IF l_failed[w] \in {"remove", "remove_denied"}
                           THEN 1 ELSE 0)}

\* the 'time' fields of a list of markers
MarkerTimes(ms) == [j \in DOMAIN ms |-> ms[j].time]

\* C30: an invocation of locate_gunshots that runs alone returns one marker
\* per detected timestamp, in the same ascending order and with 'time' equal
\* to that timestamp; after a failure while processing a timestamp (loading,
\* writing or removing its clip) it returns the empty list whatever markers
\* it had built; and every temporary clip it wrote and classified is gone
\* from the directory when it returns.
C30_LocateErrorHandling ==
    \A w \in Workers :
        (l_pc[w] = "done" /\ \A v \in Workers \ {w} : l_pc[v] = "idle") =>
            /\ l_failed[w] = "none" =>
                  /\ MarkerTimes(l_result[w]) = l_timestamps[w]
                  /\ StrictlyAscending(l_timestamps[w])
            /\ l_failed[w] # "none" => l_result[w] = <<>>
            /\ \A t \in WrittenAndClassified(w) : tempfiles[TempFile(t)] = NoFile

\* C30, amended: as C30, except that the clip whose removal itself raised
\* while the file was there stays in the directory; every other clip the
\* invocation wrote and classified is gone when it returns.
C30_LocateExceptFailedRemoval ==
    \A w \in Workers :
        (l_pc[w] = "done" /\ \A v \in Workers \ {w} : l_pc[v] = "idle") =>
            /\ l_failed[w] = "none" =>
                  /\ MarkerTimes(l_result[w]) = l_timestamps[w]
                  /\ StrictlyAscending(l_timestamps[w])
            /\ l_failed[w] # "none" => l_result[w] = <<>>
            /\ \A t \in WrittenAndClassified(w) :
                  \/ tempfiles[TempFile(t)] = NoFile
                  \/ l_failed[w] = "remove_denied" /\ t = CurrentT(w)

\* an invocation running alone has built a marker, then failed on a later
\* timestamp and returned the empty list
C30_Witness ==
    \E w \in Workers :
        /\ l_pc[w] = "done"
        /\ \A v \in Workers \ {w} : l_pc[v] = "idle"
        /\ l_failed[w] \in {"load", "write", "remove_denied"}
        /\ gunshots[w] # <<>>
        /\ l_result[w] = <<>>
        /\ \A t \in TempFiles : tempfiles[t] # NoFile => t = CurrentT(w)
====
